---- MODULE Spec2Model ----
(***************************************************************************)
(* Model of geni_wrapper/sdk.py: the GeniEvent subscriber registry and the *)
(* GeniSDK session (access token, status) driven by connect(),             *)
(* get_status(), api() and logout().                                       *)
(*                                                                         *)
(* Python values are encoded as follows.  None is the string "None"; a     *)
(* dictionary is a record over the keys the code reads (status,            *)
(* access_token, error) in which a missing key has the value "absent".     *)
(* The value stored under the key 'error' is one of                        *)
(*   "oauth"     a dict whose 'type' is 'OAuthException'                   *)
(*   "other"     a non-empty dict with another (or no) 'type'              *)
(*   "emptydict" the dict {}                                               *)
(*   "str"       a non-empty string                                        *)
(*   "emptystr"  the string ''                                             *)
(*                                                                         *)
(* connect() blocks in handle_request(): ConnectStart leaves the call      *)
(* waiting (pc = "awaiting_callback") and ConnectRequest is the one        *)
(* request the listener handles.  Every other call is one step.  The       *)
(* variable last records the call that returned last.                      *)
(*                                                                         *)
(* Spec is the session with subscribers of 'auth:statusChange'; SpecEvents *)
(* is the subscriber registry alone, over every event name.                *)
(***************************************************************************)
EXTENDS Integers, Sequences, FiniteSets, TLC

\* ---------------------------------------------------------------- bounds
MaxSubs == 2            \* longest subscriber list explored per event

\* ------------------------------------------------------------ input sets
None == "None"
Absent == "absent"
Unused == "-"

Tokens == {"XYZ", "ABC"}
Statuses == {"unknown", "unauthorized", "authorized"}

StatusChange == "auth:statusChange"
EventNames == {StatusChange, "other"}

\* subscriber callbacks bound on the event registry
\*   subOk      returns
\*   subRaise   raises an exception
\*   subUnbind  unbinds itself from the event it is called for, then returns
Subscribers == {"subOk", "subRaise", "subUnbind"}
\* the optional callback argument of connect/get_status/api/logout
CallbackKinds == {"none", "ok", "raise"}

\* request line command and query string of the request sent to the listener
Commands == {"GET", "get"}
Queries == {"noparam", "blank", "XYZ", "ABC"}

\* what requests.request(...) followed by response.json() does
HttpOutcomes == {"neterr", "neterr_nomsg", "decodeerr", "list",
                 "ok", "oauth", "other", "emptydict", "strerror"}

app_id == "APP"

\* constructor arguments: app_id, host, cookies, logging
AppIds == {None, "", app_id}
Hosts == {"https://www.geni.com", "http://localhost:3000"}
DefaultConfig == [app_id |-> app_id, host |-> "https://www.geni.com",
                  cookies |-> FALSE, logging |-> FALSE]

\* a mapping the caller passes to api() as params: the value of 'method', the
\* value of 'access_token' and whether it has another entry ('q')
Methods == {Absent, "get", "post"}
NoParams == [method |-> Absent, access_token |-> Absent, q |-> FALSE]

VARIABLES access_token, status, events, pc, pending, server, last, config, params
vars == <<access_token, status, events, pc, pending, server, last, config, params>>

\* not self._app_id is false
Configured == config.app_id \notin {None, ""}

\* ---------------------------------------------------------- value shapes
Dict(s, t, e) == [shape |-> "dict", status |-> s, access_token |-> t, error |-> e]
ListVal == [shape |-> "list", status |-> Absent, access_token |-> Absent, error |-> Absent]
NoVal == [shape |-> "none", status |-> Absent, access_token |-> Absent, error |-> Absent]

\* Python truthiness of a value stored under 'error' (absent key: .get gives None)
Truthy(e) == e \in {"oauth", "other", "str"}
\* the value has a .get method (it is a dict)
IsDictErr(e) == e \in {"oauth", "other", "emptydict"}

SubRaises(cb) == cb = "subRaise"
SubUnbinds(cb) == cb = "subUnbind"

\* str(e) of the exception caught by api()
StrOf(exc) == IF exc = "transport_nomsg" THEN "emptystr" ELSE "str"

\* ---------------------------------------------------------- GeniEvent
BindE(evs, event, cb) ==
  [e \in DOMAIN evs \union {event} |->
     IF e = event
       THEN (IF event \in DOMAIN evs THEN Append(evs[event], cb) ELSE <<cb>>)
       ELSE evs[e]]

\* variant: every occurrence of the callback is removed
RemoveFirst_All(list, cb) ==
  LET RECURSIVE Keep(_)
      Keep(l) == IF l = <<>> THEN <<>>
                 ELSE IF Head(l) = cb THEN Keep(Tail(l))
                 ELSE <<Head(l)>> \o Keep(Tail(l))
  IN Keep(list)

RemoveFirst(list, cb) ==
  LET idx == {i \in 1..Len(list) : list[i] = cb}
      k == CHOOSE i \in idx : \A j \in idx : i <= j
  IN SubSeq(list, 1, k - 1) \o SubSeq(list, k + 1, Len(list))

\* list.remove(x) raises ValueError when x is not in the list
UnbindRaises(evs, event, cb) ==
  /\ event \in DOMAIN evs
  /\ cb # None
  /\ \A i \in 1..Len(evs[event]) : evs[event][i] # cb

\* variant: unbind without a callback resets the whole registry
UnbindE_ClearAll(evs, event, cb) ==
  IF event \notin DOMAIN evs THEN evs
  ELSE IF cb = None THEN <<>>
  ELSE IF UnbindRaises(evs, event, cb) THEN evs
  ELSE [evs EXCEPT ![event] = RemoveFirst(@, cb)]

UnbindE(evs, event, cb) ==
  IF event \notin DOMAIN evs THEN evs
  ELSE IF cb = None THEN [e \in DOMAIN evs \ {event} |-> evs[e]]
  ELSE IF UnbindRaises(evs, event, cb) THEN evs
  ELSE [evs EXCEPT ![event] = RemoveFirst(@, cb)]

\* F applied to the value of v (v is evaluated once)
Let(v, F(_)) == CHOOSE y \in {F(x) : x \in {v}} : TRUE

\* the for loop of trigger() over the list object of the event: i is the
\* position the list iterator reads next; a callback that unbinds itself
\* removes its first occurrence from the list being iterated
RECURSIVE TriggerLoop(_, _, _)
TriggerLoop(list, i, invoked) ==
  IF i > Len(list) THEN [list |-> list, invoked |-> invoked, exc |-> "none"]
  ELSE IF SubRaises(list[i])
         THEN [list |-> list, invoked |-> Append(invoked, list[i]), exc |-> "subscriber"]
  ELSE IF SubUnbinds(list[i])
         THEN TriggerLoop(RemoveFirst(list, list[i]), i + 1, Append(invoked, list[i]))
  ELSE TriggerLoop(list, i + 1, Append(invoked, list[i]))

\* trigger(event): the registry it leaves, the callbacks it invoked in order
\* and the exception that leaves it
Trigger(evs, event) ==
  IF event \notin DOMAIN evs
    THEN [events |-> evs, invoked |-> <<>>, exc |-> "none"]
    ELSE Let(TriggerLoop(evs[event], 1, <<>>),
             LAMBDA t : [events |-> [evs EXCEPT ![event] = t.list],
                         invoked |-> t.invoked, exc |-> t.exc])

TriggerCalls(evs, event) == Trigger(evs, event).invoked

TriggerRaises(evs, event) == Trigger(evs, event).exc # "none"

\* ---------------------------------------------------------- GeniSDK
\* A run record threads the session through one call:
\*   token, status  the fields _access_token and _status
\*   events         the registry Event._events
\*   published      payloads handed to Event.trigger('auth:statusChange', .)
\*   invoked        subscribers called by those triggers
\*   exc            the exception in flight ("none" when there is none)
Run(tok, st) == [token |-> tok, status |-> st, events |-> events,
                 published |-> <<>>, invoked |-> <<>>, exc |-> "none"]

\* lines 85-86 with the result t of Event.trigger('auth:statusChange', new)
Published(r, new, t) ==
  [r EXCEPT !.status = new,
            !.published = Append(@, new),
            !.invoked = @ \o t.invoked,
            !.events = t.events,
            !.exc = IF t.exc # "none" THEN "subscriber" ELSE @]

\* variant: publishes without comparing with the current status
set_status_Always(r, new) ==
  Let(Trigger(r.events, StatusChange), LAMBDA t : Published(r, new, t))

set_status(r, new) ==
  IF r.status # new
    THEN Let(Trigger(r.events, StatusChange), LAMBDA t : Published(r, new, t))
    ELSE r

\* the decoded body response.json() returns, for the outcomes that decode
Data(http) ==
  CASE http = "list" -> ListVal
    [] http = "ok" -> Dict(Absent, Absent, Absent)
    [] http = "oauth" -> Dict(Absent, Absent, "oauth")
    [] http = "other" -> Dict(Absent, Absent, "other")
    [] http = "emptydict" -> Dict(Absent, Absent, "emptydict")
    [] http = "strerror" -> Dict(Absent, Absent, "str")
    [] OTHER -> NoVal

\* 'error' in data
HasErrorKey(d) == d.shape = "dict" /\ d.error # Absent

\* variant: an OAuthException demotes the status but keeps the token
ApiBody_KeepToken(r, http) ==
  IF http = "neterr" THEN [r EXCEPT !.exc = "transport"]
  ELSE IF http = "neterr_nomsg" THEN [r EXCEPT !.exc = "transport_nomsg"]
  ELSE IF http = "decodeerr" THEN [r EXCEPT !.exc = "decode"]
  ELSE IF ~HasErrorKey(Data(http)) THEN r
  ELSE IF ~IsDictErr(Data(http).error) THEN [r EXCEPT !.exc = "attribute"]
  ELSE IF Data(http).error = "oauth" THEN set_status(r, "unauthorized")
  ELSE r

\* lines 223-231: the request, the decode and the error inspection
ApiBody(r, http) ==
  IF http = "neterr" THEN [r EXCEPT !.exc = "transport"]
  ELSE IF http = "neterr_nomsg" THEN [r EXCEPT !.exc = "transport_nomsg"]
  ELSE IF http = "decodeerr" THEN [r EXCEPT !.exc = "decode"]
  ELSE IF ~HasErrorKey(Data(http)) THEN r
  ELSE IF ~IsDictErr(Data(http).error) THEN [r EXCEPT !.exc = "attribute"]
  ELSE IF Data(http).error = "oauth"
         THEN set_status([r EXCEPT !.token = None], "unauthorized")
  ELSE r

\* variant: no except clause, the exception of the try body leaves api()
ApiFinish_Reraise(b, callback, data) ==
  LET raised == IF b.exc # "none" THEN b.exc
                ELSE IF callback = "raise" THEN "callback" ELSE "none"
  IN [run |-> [b EXCEPT !.exc = raised],
      ret |-> IF raised # "none" THEN NoVal ELSE data,
      delivered |-> IF b.exc = "none" /\ callback # "none" THEN <<data>> ELSE <<>>]

\* lines 233-241 after the try body left the run b: callback(data) and return,
\* or the except clause with callback(error) and return error
ApiFinish(b, callback, data) ==
  LET tryCb == b.exc = "none" /\ callback # "none"
      tryExc == IF b.exc # "none" THEN b.exc
                ELSE IF callback = "raise" THEN "callback" ELSE "none"
      error == Dict(Absent, Absent, StrOf(tryExc))
      raised == IF tryExc # "none" /\ callback = "raise" THEN "callback" ELSE "none"
  IN [run |-> [b EXCEPT !.exc = raised],
      ret |-> IF raised # "none" THEN NoVal
              ELSE IF tryExc = "none" THEN data ELSE error,
      delivered |-> (IF tryCb THEN <<data>> ELSE <<>>)
                    \o (IF tryExc # "none" /\ callback # "none" THEN <<error>> ELSE <<>>)]

\* api(): result is the run, the returned value and the values handed to callback
Api(r, callback, http) ==
  Let(ApiBody(r, http), LAMBDA b : ApiFinish(b, callback, Data(http)))

\* lines 111-115 with the response and the run r2 of lines 97-109
GetStatusFinish(r2, response, callback) ==
  LET raised == IF r2.exc # "none" THEN r2.exc
                ELSE IF callback = "raise" THEN "callback" ELSE "none"
  IN [run |-> [r2 EXCEPT !.exc = raised],
      ret |-> IF raised = "none" THEN response ELSE NoVal,
      delivered |-> IF r2.exc = "none" /\ callback # "none" THEN <<response>> ELSE <<>>]

\* lines 97-111 with the result a of the liveness call api('/user')
GetStatusCheck(r, a, callback) ==
  LET held == r.token # None
      r1 == IF held THEN a.run ELSE r
      \* test_response.get on a decoded body that is not a dict
      attrErr == held /\ a.ret.shape # "dict"
      live == held /\ ~attrErr /\ ~Truthy(a.ret.error)
      response == IF live THEN Dict("authorized", r1.token, Absent)
                  ELSE Dict("unknown", None, Absent)
  IN Let(IF attrErr THEN [r1 EXCEPT !.exc = "attribute"]
         ELSE IF held /\ ~live
                THEN set_status([r1 EXCEPT !.token = None], response.status)
         ELSE set_status(r1, response.status),
         LAMBDA r2 : GetStatusFinish(r2, response, callback))

\* get_status(): the liveness call is api('/user') with no callback
GetStatus(r, callback, http) ==
  Let(Api(r, "none", http), LAMBDA a : GetStatusCheck(r, a, callback))

\* BaseHTTPRequestHandler calls the method named 'do_' + command; OAuthHandler
\* defines do_get only, any other command is answered 501 without a handler
Dispatched(command) == command = "get"

\* parse_qs(...) drops blank values: the value of access_token, or Absent
ParseQs(query) == IF query \in {"noparam", "blank"} THEN Absent ELSE query

\* server.oauth_response after handle_request(), with the getattr default
OAuthResponse(command, query) ==
  IF ~Dispatched(command) THEN Dict("unknown", Absent, Absent)
  ELSE IF ParseQs(query) # Absent THEN Dict("authorized", ParseQs(query), Absent)
  ELSE Dict("unknown", Absent, "str")

\* connect() with a token held: lines 127-131
ConnectHeld(r, callback) ==
  [run |-> [r EXCEPT !.exc = IF callback = "raise" THEN "callback" ELSE "none"],
   ret |-> NoVal,
   delivered |-> IF callback # "none"
                   THEN <<Dict("authorized", r.token, Absent)>> ELSE <<>>]

\* lines 180-181 with the run r2 left by _set_status
ConnectFinish(r2, response, callback) ==
  LET raised == IF r2.exc # "none" THEN r2.exc
                ELSE IF callback = "raise" THEN "callback" ELSE "none"
  IN [run |-> [r2 EXCEPT !.exc = raised],
      ret |-> NoVal,
      delivered |-> IF r2.exc = "none" /\ callback # "none" THEN <<response>> ELSE <<>>]

\* connect() after handle_request() returned: lines 170-181
ConnectResolve(r, callback, command, query) ==
  Let(OAuthResponse(command, query),
      LAMBDA response :
        Let(set_status(IF response.status = "authorized"
                         THEN [r EXCEPT !.token = response.access_token] ELSE r,
                       response.status),
            LAMBDA r2 : ConnectFinish(r2, response, callback)))

LogoutOutcomes == {"sent", "neterr"}

\* lines 199-200 and the exception that leaves logout()
LogoutFinish(r1, callback, http) ==
  LET raised == IF r1.exc # "none" THEN r1.exc
                ELSE IF callback = "raise" THEN "callback"
                ELSE IF http = "neterr" THEN "transport" ELSE "none"
  IN [run |-> [r1 EXCEPT !.exc = raised],
      ret |-> NoVal,
      delivered |-> IF r1.exc = "none" /\ callback # "none" THEN <<NoVal>> ELSE <<>>]

\* variant: the session is reset after the request instead of in a finally
Logout_AfterRequest(r, callback, http) ==
  IF http = "neterr"
    THEN [run |-> [r EXCEPT !.exc = "transport"], ret |-> NoVal, delivered |-> <<>>]
    ELSE Let(set_status([r EXCEPT !.token = None], "unknown"),
             LAMBDA r1 : LogoutFinish(r1, callback, http))

\* logout(): try requests.get(...) finally clear, set status, call back
Logout(r, callback, http) ==
  Let(set_status([r EXCEPT !.token = None], "unknown"),
      LAMBDA r1 : LogoutFinish(r1, callback, http))

\* ------------------------------------------------------------- actions
\* record of the call that returned last: its arguments and inputs, the
\* session and registry before it, what it returned, delivered, raised and
\* published, and whether it went through the listener
Last(op, cb, event, http, command, query, res, listener) ==
  [op |-> op, cb |-> cb, event |-> event, http |-> http,
   command |-> command, query |-> query,
   pre_status |-> status, pre_token |-> access_token, pre_events |-> events,
   pre_params |-> params, method |-> Unused, sent |-> Unused,
   ret |-> res.ret, delivered |-> res.delivered, raised |-> res.run.exc,
   published |-> res.run.published, invoked |-> res.run.invoked,
   listener |-> listener]

NoRes == [run |-> Run(access_token, status), ret |-> NoVal, delivered |-> <<>>]

Init ==
  /\ access_token = None
  /\ status = "unknown"
  /\ events = <<>>
  /\ pc = "idle"
  /\ pending = Unused
  /\ server = "none"
  /\ config = DefaultConfig
  /\ params = NoParams
  /\ last = Last("init", Unused, Unused, Unused, Unused, Unused, NoRes, FALSE)

Commit(res) ==
  /\ access_token' = res.run.token
  /\ status' = res.run.status
  /\ events' = res.run.events

ConnectHeldCall(callback) ==
  /\ pc = "idle"
  /\ Configured
  /\ access_token # None
  /\ \E res \in {ConnectHeld(Run(access_token, status), callback)} :
        /\ Commit(res)
        /\ last' = Last("connect", callback, Unused, Unused, Unused, Unused, res, FALSE)
  /\ UNCHANGED <<config, params, pc, pending, server>>

\* variant: no re-entry guard, the handshake starts with a token held
ConnectStart_NoGuard(callback) ==
  /\ pc = "idle"
  /\ Configured
  /\ pc' = "awaiting_callback"
  /\ pending' = callback
  /\ server' = "open"
  /\ UNCHANGED <<config, params, access_token, status, events, last>>

\* lines 154-169: bind the listener, open the browser, block in handle_request()
ConnectStart(callback) ==
  /\ pc = "idle"
  /\ Configured
  /\ access_token = None
  /\ pc' = "awaiting_callback"
  /\ pending' = callback
  /\ server' = "open"
  /\ UNCHANGED <<config, params, access_token, status, events, last>>

\* connect() never calls server_close(): when it returns the listener socket
\* is open until the garbage collector finalizes the server object, which a
\* reference-counting runtime does on return; when connect() is left by an
\* exception the traceback keeps the frame, and with it the server, alive
Sockets(exc) == IF exc = "none" THEN {"open", "collected"} ELSE {"open"}

\* variant: the listener keeps serving after the first request
ConnectRequest_KeepServing(command, query) ==
  /\ pc = "awaiting_callback"
  /\ \E res \in {ConnectResolve(Run(access_token, status), pending, command, query)} :
        /\ Commit(res)
        /\ last' = Last("connect", pending, Unused, Unused, command, query, res, TRUE)
  /\ UNCHANGED <<config, params, pc, pending, server>>

ConnectRequest(command, query) ==
  /\ pc = "awaiting_callback"
  /\ \E res \in {ConnectResolve(Run(access_token, status), pending, command, query)} :
        /\ Commit(res)
        /\ last' = Last("connect", pending, Unused, Unused, command, query, res, TRUE)
        /\ server' \in Sockets(res.run.exc)
  /\ pc' = "idle"
  /\ pending' = Unused
  /\ UNCHANGED <<config, params>>

GetStatusCall(callback, http) ==
  /\ pc = "idle"
  /\ access_token = None => http = "ok"
  /\ \E res \in {GetStatus(Run(access_token, status), callback, http)} :
        /\ Commit(res)
        /\ last' = Last("get_status", callback, Unused,
                        IF access_token = None THEN Unused ELSE http,
                        Unused, Unused, res, FALSE)
  /\ UNCHANGED <<config, params, pc, pending, server>>

ApiCall(callback, http) ==
  /\ pc = "idle"
  /\ \E res \in {Api(Run(access_token, status), callback, http)} :
        /\ Commit(res)
        /\ last' = Last("api", callback, Unused, http, Unused, Unused, res, FALSE)
  /\ UNCHANGED <<config, params, pc, pending, server>>

\* not params: the mapping is empty
EmptyParams(p) == p.method = Absent /\ p.access_token = Absent /\ ~p.q

\* lines 212-218 on the caller's mapping p with the token tok held: the
\* mapping as api() leaves it, the request method and the access_token sent
ApiRequest(p, tok) ==
  IF EmptyParams(p)
    THEN [params |-> p, method |-> "GET", sent |-> tok]
    ELSE [params |-> [p EXCEPT !.method = Absent,
                               !.access_token = IF tok # None THEN tok ELSE @],
          method |-> IF p.method = "post" THEN "POST" ELSE "GET",
          sent |-> IF tok # None THEN tok
                   ELSE IF p.access_token # Absent THEN p.access_token ELSE None]

\* the caller builds a mapping to pass to api()
SetParams(m, q) ==
  /\ pc = "idle"
  /\ params' = [method |-> m, access_token |-> Absent, q |-> q]
  /\ last' = Last("params", Unused, Unused, Unused, Unused, Unused, NoRes, FALSE)
  /\ UNCHANGED <<config, access_token, status, events, pc, pending, server>>

\* api(path, params, callback) with the caller's mapping
ApiParamsCall(callback, http) ==
  /\ pc = "idle"
  /\ \E res \in {Api(Run(access_token, status), callback, http)},
        req \in {ApiRequest(params, access_token)} :
        /\ Commit(res)
        /\ params' = req.params
        /\ last' = [Last("api", callback, Unused, http, Unused, Unused, res, FALSE)
                      EXCEPT !.method = req.method, !.sent = req.sent]
  /\ UNCHANGED <<config, pc, pending, server>>

LogoutCall(callback, http) ==
  /\ pc = "idle"
  /\ Configured
  /\ \E res \in {Logout(Run(access_token, status), callback, http)} :
        /\ Commit(res)
        /\ last' = Last("logout", callback, Unused, http, Unused, Unused, res, FALSE)
  /\ UNCHANGED <<config, params, pc, pending, server>>

BindCall(event, cb) ==
  /\ pc = "idle"
  /\ event \in DOMAIN events => Len(events[event]) < MaxSubs
  /\ events' = BindE(events, event, cb)
  /\ last' = Last("bind", cb, event, Unused, Unused, Unused, NoRes, FALSE)
  /\ UNCHANGED <<config, params, access_token, status, pc, pending, server>>

UnbindCall(event, cb) ==
  /\ pc = "idle"
  /\ events' = UnbindE(events, event, cb)
  /\ last' = Last("unbind", cb, event, Unused, Unused, Unused,
                  [NoRes EXCEPT !.run.exc = IF UnbindRaises(events, event, cb)
                                              THEN "ValueError" ELSE "none"],
                  FALSE)
  /\ UNCHANGED <<config, params, access_token, status, pc, pending, server>>

TriggerCall(event) ==
  /\ pc = "idle"
  /\ \E t \in {Trigger(events, event)} :
        /\ events' = t.events
        /\ last' = Last("trigger", Unused, event, Unused, Unused, Unused,
                        [NoRes EXCEPT !.run.invoked = t.invoked, !.run.exc = t.exc],
                        FALSE)
  /\ UNCHANGED <<config, params, access_token, status, pc, pending, server>>

\* variant: only a missing (None) application id is rejected
Construct_NoneOnly(a, h, c, l) ==
  /\ pc = "new"
  /\ config' = [app_id |-> a, host |-> h, cookies |-> c, logging |-> l]
  /\ access_token' = None
  /\ status' = "unknown"
  /\ events' = <<>>
  /\ pc' = IF a = None THEN "failed" ELSE "idle"
  /\ last' = Last("construct", Unused, Unused, Unused, Unused, Unused,
                  [NoRes EXCEPT !.run.exc = IF a = None THEN "ValueError" ELSE "none"],
                  FALSE)
  /\ UNCHANGED <<pending, server, params>>

\* GeniSDK(app_id, host, cookies, logging): lines 56-75
Construct(a, h, c, l) ==
  /\ pc = "new"
  /\ config' = [app_id |-> a, host |-> h, cookies |-> c, logging |-> l]
  /\ access_token' = None
  /\ status' = "unknown"
  /\ events' = <<>>
  /\ pc' = IF a \in {None, ""} THEN "failed" ELSE "idle"
  /\ last' = Last("construct", Unused, Unused, Unused, Unused, Unused,
                  [NoRes EXCEPT !.run.exc = IF a \in {None, ""}
                                              THEN "ValueError" ELSE "none"],
                  FALSE)
  /\ UNCHANGED <<pending, server, params>>

\* the session with subscribers of 'auth:statusChange'
Next ==
  \/ \E c \in CallbackKinds : ConnectHeldCall(c)
  \/ \E c \in CallbackKinds : ConnectStart(c)
  \/ \E m \in Commands, q \in Queries : ConnectRequest(m, q)
  \/ \E c \in CallbackKinds, h \in HttpOutcomes : GetStatusCall(c, h)
  \/ \E c \in CallbackKinds, h \in HttpOutcomes : ApiCall(c, h)
  \/ \E c \in CallbackKinds, h \in LogoutOutcomes : LogoutCall(c, h)
  \/ \E cb \in Subscribers : BindCall(StatusChange, cb)
  \/ \E cb \in Subscribers \union {None} : UnbindCall(StatusChange, cb)
  \/ TriggerCall(StatusChange)

Spec == Init /\ [][Next]_vars

\* the subscriber registry alone, over every event name
NextEvents ==
  \/ \E e \in EventNames, cb \in Subscribers : BindCall(e, cb)
  \/ \E e \in EventNames, cb \in Subscribers \union {None} : UnbindCall(e, cb)
  \/ \E e \in EventNames : TriggerCall(e)

SpecEvents == Init /\ [][NextEvents]_vars

\* construction with every argument combination, then the calls that test
\* the application id
InitConstruct ==
  /\ access_token = None
  /\ status = "unknown"
  /\ events = <<>>
  /\ pc = "new"
  /\ pending = Unused
  /\ server = "none"
  /\ config = DefaultConfig
  /\ params = NoParams
  /\ last = Last("init", Unused, Unused, Unused, Unused, Unused, NoRes, FALSE)

NextConstruct ==
  \/ \E a \in AppIds, h \in Hosts, c \in BOOLEAN, l \in BOOLEAN : Construct(a, h, c, l)
  \/ \E c \in CallbackKinds : ConnectHeldCall(c)
  \/ \E c \in CallbackKinds : ConnectStart(c)
  \/ \E m \in Commands, q \in Queries : ConnectRequest(m, q)
  \/ \E c \in CallbackKinds, h \in LogoutOutcomes : LogoutCall(c, h)

SpecConstruct == InitConstruct /\ [][NextConstruct]_vars

\* api() with a mapping the caller keeps and reuses, between connects, logouts
\* and OAuthException answers
NextParams ==
  \/ \E m \in Methods, q \in BOOLEAN : SetParams(m, q)
  \/ \E h \in {"ok", "oauth", "neterr"} : ApiParamsCall("none", h)
  \/ \E h \in LogoutOutcomes : LogoutCall("none", h)
  \/ ConnectStart("none")
  \/ \E m \in Commands, q \in Queries : ConnectRequest(m, q)

SpecParams == Init /\ [][NextParams]_vars

TypeOK ==
  /\ access_token \in Tokens \union {None}
  /\ status \in Statuses
  /\ DOMAIN events \subseteq EventNames
  /\ \A e \in DOMAIN events : Len(events[e]) <= MaxSubs
  /\ pc \in {"new", "failed", "idle", "awaiting_callback"}
  /\ config \in [app_id : AppIds, host : Hosts, cookies : BOOLEAN, logging : BOOLEAN]
  /\ server \in {"none", "open", "collected"}
  /\ params \in [method : Methods, access_token : Tokens \union {Absent}, q : BOOLEAN]

\* ------------------------------------------------------------- properties
Subs(evs, e) == IF e \in DOMAIN evs THEN evs[e] ELSE <<>>
NoRaiser == last.cb # "raise" /\ ~TriggerRaises(events, StatusChange)
TransportFailures == {"neterr", "neterr_nomsg", "decodeerr"}

\* C1: whenever an operation has returned, the access token is non-empty
\* only if the status is 'authorized'.
C1_TokenOnlyWhenAuthorized ==
  pc = "idle" => (access_token # None => status = "authorized")

\* a token survives an api() call answered with an error that is not an
\* OAuthException
C1_Witness ==
  /\ last.op = "api"
  /\ last.http = "other"
  /\ access_token \in Tokens
  /\ status = "authorized"

\* C2: with no token held, a listener request carrying access_token=XYZ makes
\* connect() deliver {status: authorized, access_token: XYZ} and store XYZ with
\* status 'authorized'; a following get_status() whose liveness call succeeds
\* reports authorized.
C2_CallbackTokenAuthorizes ==
  /\ (last.op = "connect" /\ last.listener /\ last.query \in Tokens /\ last.raised = "none")
       => /\ access_token = last.query
          /\ status = "authorized"
          /\ last.cb # "none"
               => last.delivered = <<Dict("authorized", last.query, Absent)>>
  /\ (last.op = "get_status" /\ last.pre_token # None /\ last.http = "ok"
        /\ last.raised = "none")
       => last.ret.status = "authorized"

\* C3: a listener request with no access_token parameter makes connect()
\* deliver a result with status 'unknown' and an error field, and no token is
\* stored.
C3_NoTokenGivesError ==
  (last.op = "connect" /\ last.listener /\ last.query = "noparam" /\ last.raised = "none")
    => /\ access_token = None
       /\ last.cb # "none"
            => /\ last.delivered[1].status = "unknown"
               /\ last.delivered[1].error # Absent

\* C4: connect() with a token held delivers {status: authorized, access_token:
\* held token}, creates no listener and opens no browser, leaves token and
\* status unchanged and publishes nothing.
C4_ConnectHeldShortCircuits ==
  (last.op = "connect" /\ last.pre_token # None)
    => /\ ~last.listener
       /\ access_token = last.pre_token
       /\ status = last.pre_status
       /\ last.published = <<>>
       /\ last.invoked = <<>>
       /\ last.delivered = IF last.cb = "none" THEN <<>>
                           ELSE <<Dict("authorized", last.pre_token, Absent)>>

C4_Witness ==
  /\ last.op = "connect"
  /\ last.pre_token \in Tokens
  /\ last.cb = "ok"
  /\ server = "open"
  /\ pc = "idle"

\* C5: after api() got an OAuthException error the status is 'unauthorized'
\* and the token empty, and the next get_status() reports status
\* 'unauthorized' with no token.
C5_OAuthExceptionObserved ==
  /\ (last.op = "api" /\ last.http = "oauth")
       => (status = "unauthorized" /\ access_token = None)
  /\ (last.op = "get_status" /\ last.pre_status = "unauthorized"
        /\ last.pre_token = None /\ last.raised = "none")
       => (last.ret.status = "unauthorized" /\ last.ret.access_token = None)

\* C6: logout() ends with status 'unknown' and the token cleared, whether its
\* HTTP request succeeds or fails.
C6_LogoutResets ==
  last.op = "logout" => (status = "unknown" /\ access_token = None)

C6_Witness ==
  /\ last.op = "logout"
  /\ last.http = "neterr"
  /\ last.pre_token \in Tokens
  /\ last.pre_status = "authorized"
  /\ status = "unknown"

\* C7: 'auth:statusChange' is published exactly when the status changes value,
\* with the new status as payload: each payload differs from the status it
\* replaces, the last payload is the status the call leaves, and a call that
\* leaves the status it found through a re-set publishes nothing.
C7_PublishedExactlyOnChange ==
  LET path == <<last.pre_status>> \o last.published
  IN /\ \A i \in 1..Len(last.published) : path[i] # path[i + 1]
     /\ path[Len(path)] = status

\* logout() re-sets 'unknown' on a session that is 'unknown' and subscribed
C7_Witness ==
  /\ last.op = "logout"
  /\ last.pre_status = "unknown"
  /\ last.published = <<>>
  /\ Subs(events, StatusChange) # <<>>

\* C8: logout() does not raise when its HTTP request fails; connect() and
\* logout() raise only for a missing application identifier.
C8_LogoutNeverRaises ==
  (last.op \in {"connect", "logout"} /\ NoRaiser) => last.raised = "none"

\* C9 as stated: on a transport-level failure api() never raises, returns
\* {'error': description}, delivers it to the callback and leaves the session.
C9_ApiNeverRaises ==
  (last.op = "api" /\ last.http \in TransportFailures)
    => /\ last.raised = "none"
       /\ last.ret.shape = "dict" /\ last.ret.error \in {"str", "emptystr"}
       /\ last.cb # "none" => last.delivered = <<last.ret>>
       /\ access_token = last.pre_token
       /\ status = last.pre_status

\* C9 amended: on a transport-level failure api() leaves token and status,
\* publishes nothing and hands {'error': description} to the callback if one
\* was given; it returns that value unless the callback raises, and then the
\* callback's exception is the only one that leaves api().
C9_ApiSwallowsTransportFailure ==
  (last.op = "api" /\ last.http \in TransportFailures)
    => /\ access_token = last.pre_token
       /\ status = last.pre_status
       /\ last.published = <<>>
       /\ \E e \in {"str", "emptystr"} :
            /\ last.delivered = IF last.cb = "none" THEN <<>>
                                ELSE <<Dict(Absent, Absent, e)>>
            /\ last.cb # "raise" => (last.raised = "none" /\ last.ret = Dict(Absent, Absent, e))
       /\ last.cb = "raise" => last.raised = "callback"

C9_Witness ==
  /\ last.op = "api"
  /\ last.http = "neterr"
  /\ last.cb = "ok"
  /\ last.raised = "none"
  /\ access_token \in Tokens

\* C10: unbind(event) without a callback leaves the event without subscribers,
\* so trigger(event) then invokes nothing; the other events keep their
\* subscribers and an unknown event changes nothing.
C10_UnbindAllClearsEvent ==
  /\ (last.op = "unbind" /\ last.cb = None)
       => /\ Subs(events, last.event) = <<>>
          /\ last.raised = "none"
          /\ \A e \in EventNames \ {last.event} :
               /\ e \in DOMAIN events <=> e \in DOMAIN last.pre_events
               /\ Subs(events, e) = Subs(last.pre_events, e)
          /\ last.event \notin DOMAIN last.pre_events => events = last.pre_events
  /\ (last.op = "trigger" /\ Subs(last.pre_events, last.event) = <<>>)
       => (last.invoked = <<>> /\ last.raised = "none")

C10_Witness ==
  /\ last.op = "unbind"
  /\ last.cb = None
  /\ Len(Subs(last.pre_events, last.event)) = 2
  /\ \E e \in EventNames \ {last.event} : Subs(events, e) # <<>>

\* C11: construction with no application identifier (None or empty) fails
\* with ValueError for every host, cookies and logging, and no call is ever
\* served by such an instance.
C11_NoAppIdFails ==
  /\ (pc # "new" /\ config.app_id \in {None, ""}) => pc = "failed"
  /\ (last.op = "construct" /\ config.app_id \in {None, ""})
       => last.raised = "ValueError"
  /\ pc = "failed" => last.op = "construct"

C11_Witness ==
  /\ pc = "failed"
  /\ config.app_id = ""
  /\ config.host # DefaultConfig.host
  /\ config.cookies
  /\ config.logging
  /\ last.raised = "ValueError"

\* C12: trigger(event) invokes every callback subscribed to the event when
\* it is called, once per subscription and in subscription order, also when a
\* callback unbinds from the event during the publish (stated for lists in
\* which no callback raises).
C12_TriggerInvokesAll ==
  (last.op = "trigger"
     /\ \A i \in 1..Len(Subs(last.pre_events, last.event)) :
          ~SubRaises(Subs(last.pre_events, last.event)[i]))
    => last.invoked = Subs(last.pre_events, last.event)

\* outcomes of the liveness call that carry no error: a decoded body without
\* an 'error' entry, or with an empty one
ErrorFree == {"ok", "list", "emptydict"}
\* the call was not ended by an exception of a subscriber or of its callback
NoCallerFault == last.raised \notin {"subscriber", "callback"}

\* C13: get_status() reports 'authorized' with the held token exactly when a
\* token is held and the liveness call returns no error; otherwise it reports
\* 'unknown' with no token and clears the token; the status after the call is
\* the reported status.
C13_GetStatusReports ==
  (last.op = "get_status" /\ NoCallerFault)
    => /\ last.raised = "none"
       /\ status = last.ret.status
       /\ IF last.pre_token # None /\ last.http \in ErrorFree
            THEN /\ last.ret = Dict("authorized", last.pre_token, Absent)
                 /\ access_token = last.pre_token
            ELSE /\ last.ret = Dict("unknown", None, Absent)
                 /\ access_token = None

\* C14: the listener socket opened by connect() is closed on every exit path
\* of connect(), after the one request was handled and when a subscriber or
\* the callback raises.
C14_ListenerClosed ==
  pc = "idle" => server \in {"none", "collected"}

\* C15: unbind(event, callback) with a callback that is not subscribed to the
\* event raises nothing and leaves the registry unchanged, whether the event
\* is unknown, has other subscribers or has an empty list.
C15_UnbindAbsentIsSilent ==
  (last.op = "unbind" /\ last.cb # None
     /\ \A i \in 1..Len(Subs(last.pre_events, last.event)) :
          Subs(last.pre_events, last.event)[i] # last.cb)
    => (last.raised = "none" /\ events = last.pre_events)

Count(list, cb) == Cardinality({i \in 1..Len(list) : list[i] = cb})
OthersKept ==
  \A e \in EventNames \ {last.event} :
    /\ e \in DOMAIN events <=> e \in DOMAIN last.pre_events
    /\ Subs(events, e) = Subs(last.pre_events, e)
Plain(list) == \A i \in 1..Len(list) : ~SubRaises(list[i]) /\ ~SubUnbinds(list[i])

C17_ConnectWaitsForOneRequest ==
  [][ /\ (pc = "idle" /\ pc' = "awaiting_callback")
           => /\ access_token = None
              /\ server' = "open"
              /\ UNCHANGED <<access_token, status, events, last>>
      /\ (pc = "awaiting_callback" /\ pc' = "awaiting_callback")
           => UNCHANGED vars
      /\ pc = "awaiting_callback"
           => /\ pc' \in {"awaiting_callback", "idle"}
              /\ pc' = "idle"
                   => /\ last'.op = "connect"
                      /\ last'.listener
                      /\ last'.command \in Commands
                      /\ last'.cb = pending
                      /\ status' \in {"authorized", "unknown"}
                      /\ \A i \in 1..Len(last'.delivered) :
                           last'.delivered[i].status = status'
      /\ (last' # last /\ last'.listener) => pc = "awaiting_callback"
    ]_vars

\* a handshake resolved 'unknown' on a session that was 'unauthorized'
C17_Witness ==
  /\ pc = "idle"
  /\ last.op = "connect"
  /\ last.listener
  /\ last.pre_status = "unauthorized"
  /\ status = "unknown"

PublicOps == {"connect", "get_status", "api", "logout"}

\* C18: one call of connect, get_status, api or logout publishes
\* 'auth:statusChange' at most once, also get_status() with a held token
\* whose liveness call returns an OAuthException error.
C18_OnePublishPerCall ==
  last.op \in PublicOps => Len(last.published) <= 1

\* C19: api() given a callback invokes it exactly once, with the value api()
\* returns, for every response and failure, also when a subscriber or the
\* callback itself raises.
C19_CallbackOnce ==
  (last.op = "api" /\ last.cb # "none")
    => /\ Len(last.delivered) = 1
       /\ last.raised = "none" => last.delivered[1] = last.ret

\* C20: api() leaves the caller's params mapping unchanged, so a mapping
\* reused after the token was cleared does not send the token held before:
\* the request carries the token held at the call, or none.
C20_ParamsUntouched ==
  (last.op = "api" /\ last.sent # Unused)
    => /\ params = last.pre_params
       /\ last.sent = last.pre_token

====
